---- MODULE Spec2Model ----
(***************************************************************************)
(* EcoWebApp: the station import (database/import_data.py), the store it   *)
(* writes (stations, reviews, favorites and the two constraints the import *)
(* reconciles) and the request handlers of backend/main.py and             *)
(* database/crud.py that write the same tables while an import runs.       *)
(*                                                                         *)
(* Values.  A nullable value (a Python None, an SQL NULL) is the empty     *)
(* tuple and a present value v is the one-element tuple <<v>>.             *)
(* Timestamps are values of a logical clock.                               *)
(***************************************************************************)
EXTENDS Integers, Sequences, FiniteSets, TLC

\* ------------------------------------------------------------------ bounds
\* operations in one behaviour: invocations of import_data (at startup and
\* on demand) plus requests that change the store
MaxSteps == 3


\* ------------------------------------------------------------------ values
None == <<>>

Some(v) == <<v>>

\* a Python value that is neither None nor a number (a list, say)
NotNumber == <<0, 0>>

IsNumber(x) == Len(x) = 1

\* Python truthiness of an optional string: None and "" are falsy
Truthy(o) == o /= None /\ o /= Some("")

\* import_data.py:19-22, in the dictionary's order
URLS == <<"eco", "non_eco">>

\* ------------------------------------------------------------------ feeds
\* geoData of a feed record.  type is the Python type of the value ("dict",
\* "str" or "other"); keys are a dict's keys; coordsIsList tells whether
\* value["coordinates"] is a list and coordinates holds its entries (the
\* items, when it is another sequence); an entry is None, Some(number) or
\* NotNumber; text holds the characters of a str.  Numbers are in tenths of
\* a degree.
GeoDict(keys, isList, coords) ==
    Some([type |-> "dict", keys |-> keys, coordsIsList |-> isList,
          coordinates |-> coords, text |-> <<>>])

GeoStr(chars) ==
    Some([type |-> "str", keys |-> {}, coordsIsList |-> FALSE,
          coordinates |-> <<>>, text |-> chars])

GeoPoint(lon, lat) ==
    GeoDict({"type", "coordinates"}, TRUE, <<Some(lon), Some(lat)>>)

\* a value that is neither a dict nor a str (a number, a list, a bool)
GeoOther ==
    Some([type |-> "other", keys |-> {}, coordsIsList |-> FALSE,
          coordinates |-> <<>>, text |-> <<>>])

\* one item of a feed, item["Cells"]
Cells(name, address, v, date, geo) ==
    [FullName |-> name, Address |-> address, AdmArea |-> Some(v),
     District |-> Some(v), Owner |-> Some(v), TestDate |-> date,
     geoData |-> geo]

\* "01.02.2023"
DateDMY == Some(<<"0", "1", ".", "0", "2", ".", "2", "0", "2", "3">>)

\* "2023-03-04"
DateYMD == Some(<<"2", "0", "2", "3", "-", "0", "3", "-", "0", "4">>)

\* "n/a"
DateGarbage == Some(<<"n", "/", "a">>)

RecA1 == Cells(Some("A"), Some("x"), "v1", DateDMY, GeoPoint(305, 557))

RecA2 == Cells(Some("A"), Some("x"), "v2", DateYMD, GeoPoint(376, 558))

RecB1 == Cells(Some("B"), Some("x"), "v1", DateGarbage, None)

RecNoName == Cells(None, Some("x"), "v1", DateDMY, GeoPoint(305, 557))

RecNoAddress == Cells(Some("B"), Some(""), "v2", None, None)

\* the responses a feed endpoint can give to one GET
Payloads == { <<RecNoAddress, RecA1>>, <<RecA2, RecNoName, RecB1>> }

\* ------------------------------------------------------ field normalizer
Digits == {"0", "1", "2", "3", "4", "5", "6", "7", "8", "9"}

DigitVal(c) ==
    CASE c = "0" -> 0 [] c = "1" -> 1 [] c = "2" -> 2 [] c = "3" -> 3
      [] c = "4" -> 4 [] c = "5" -> 5 [] c = "6" -> 6 [] c = "7" -> 7
      [] c = "8" -> 8 [] c = "9" -> 9

AllDigits(s) == \A i \in 1..Len(s) : s[i] \in Digits

RECURSIVE IntVal(_)
\* int() of a string of decimal digits
IntVal(s) ==
    IF s = <<>> THEN 0
    ELSE 10 * IntVal(SubSeq(s, 1, Len(s) - 1)) + DigitVal(s[Len(s)])

RECURSIVE SplitOn(_, _)
\* the fields of s between occurrences of the character sep
SplitOn(s, sep) ==
    IF s = <<>> THEN << <<>> >>
    ELSE LET rest == SplitOn(Tail(s), sep)
         IN  IF Head(s) = sep THEN << <<>> >> \o rest
             ELSE << <<Head(s)>> \o Head(rest) >> \o Tail(rest)

IsLeap(y) == y % 4 = 0 /\ (y % 100 /= 0 \/ y % 400 = 0)

DaysIn(y, m) ==
    IF m = 2 THEN (IF IsLeap(y) THEN 29 ELSE 28)
    ELSE IF m \in {4, 6, 9, 11} THEN 30 ELSE 31

\* strptime's %d: 3[0-1]|[1-2]\d|0[1-9]|[1-9]| [1-9]
MatchesDay(f) ==
    \/ Len(f) \in {1, 2} /\ AllDigits(f) /\ IntVal(f) \in 1..31
    \/ Len(f) = 2 /\ f[1] = " " /\ f[2] \in Digits \ {"0"}

\* strptime's %m: 1[0-2]|0[1-9]|[1-9]
MatchesMonth(f) == Len(f) \in {1, 2} /\ AllDigits(f) /\ IntVal(f) \in 1..12

\* strptime's %Y: \d\d\d\d, and datetime.date accepts years from 1
MatchesYear(f) == Len(f) = 4 /\ AllDigits(f) /\ IntVal(f) >= 1

DayVal(f) == IF f[1] = " " THEN DigitVal(f[2]) ELSE IntVal(f)

\* datetime.strptime(s, fmt).date() for the two formats of safe_parse_date:
\* the date as Some([year, month, day]), or None where strptime raises
Strptime(s, fmt) ==
    LET sep == IF fmt = "%d.%m.%Y" THEN "." ELSE "-"
        f   == SplitOn(s, sep)
        fd  == IF fmt = "%d.%m.%Y" THEN f[1] ELSE f[3]
        fy  == IF fmt = "%d.%m.%Y" THEN f[3] ELSE f[1]
    IN  IF /\ Len(f) = 3
           /\ MatchesDay(fd) /\ MatchesMonth(f[2]) /\ MatchesYear(fy)
           /\ DayVal(fd) <= DaysIn(IntVal(fy), IntVal(f[2]))
        THEN Some([year |-> IntVal(fy), month |-> IntVal(f[2]),
                   day |-> DayVal(fd)])
        ELSE None

\* date_str is None or Some(characters)
safe_parse_date(date_str) ==
    IF date_str = None \/ date_str = Some(<<>>) THEN None
    ELSE IF Strptime(date_str[1], "%d.%m.%Y") /= None
         THEN Strptime(date_str[1], "%d.%m.%Y")
         ELSE Strptime(date_str[1], "%Y-%m-%d")

RECURSIVE DigitsEnd(_, _)
\* the first index from i on that holds no digit (Len(s) + 1 if none)
DigitsEnd(s, i) ==
    IF i <= Len(s) /\ s[i] \in Digits THEN DigitsEnd(s, i + 1) ELSE i

RECURSIVE FindAll(_, _)
\* re.findall(r"[-+]?\d*\.\d+|\d+", s) from index i on
FindAll(s, i) ==
    IF i > Len(s) THEN <<>>
    ELSE LET j    == IF s[i] \in {"-", "+"} THEN i + 1 ELSE i
             k    == DigitsEnd(s, j)
             alt1 == /\ k + 1 <= Len(s)
                     /\ s[k] = "."
                     /\ s[k + 1] \in Digits
             e1   == DigitsEnd(s, k + 1)
             e2   == DigitsEnd(s, i)
         IN  IF alt1 THEN <<SubSeq(s, i, e1 - 1)>> \o FindAll(s, e1)
             ELSE IF e2 > i THEN <<SubSeq(s, i, e2 - 1)>> \o FindAll(s, e2)
             ELSE FindAll(s, i + 1)

\* float() of a token of FindAll, in tenths; the texts of the model carry at
\* most one decimal digit
Float(tok) ==
    LET neg  == tok[1] = "-"
        body == IF tok[1] \in {"-", "+"} THEN Tail(tok) ELSE tok
        f    == SplitOn(body, ".")
        mag  == IF Len(f) = 1 THEN 10 * IntVal(f[1])
                ELSE 10 * IntVal(f[1]) + IntVal(SubSeq(f[2], 1, 1))
    IN  IF neg THEN 0 - mag ELSE mag

\* float(tok) returns: tok is a decimal literal
FloatOk(tok) ==
    LET body == IF tok /= <<>> /\ tok[1] \in {"-", "+"} THEN Tail(tok)
                ELSE tok
    IN  /\ \E i \in 1..Len(body) : body[i] \in Digits
        /\ \A i \in 1..Len(body) : body[i] \in Digits \cup {"."}
        /\ Len(SplitOn(body, ".")) <= 2

\* extract_coordinates(value) raises: a token that float() rejects
extract_coordinates_raises(value) ==
    /\ value /= None /\ value[1].type = "str"
    /\ LET nums == FindAll(value[1].text, 1)
       IN  Len(nums) >= 2 /\ \E i \in 1..2 : ~FloatOk(nums[i])

\* an extract_coordinates that does not swap the two entries
extract_coordinates_unswapped(value) ==
    LET v == value[1]
        falsy == \/ value = None
                 \/ v.type = "str" /\ v.text = <<>>
                 \/ v.type = "dict" /\ v.keys = {}
        nums == FindAll(v.text, 1)
    IN  IF falsy THEN <<None, None>>
        ELSE IF /\ v.type = "dict" /\ "coordinates" \in v.keys
                /\ v.coordsIsList /\ Len(v.coordinates) >= 2
        THEN <<v.coordinates[1], v.coordinates[2]>>
        ELSE IF v.type = "str" /\ Len(nums) >= 2
        THEN <<Some(Float(nums[2])), Some(Float(nums[1]))>>
        ELSE <<None, None>>

\* an extract_coordinates without the isinstance(coords, list) test
extract_coordinates_any_sequence(value) ==
    LET v == value[1]
        falsy == \/ value = None
                 \/ v.type = "str" /\ v.text = <<>>
                 \/ v.type = "dict" /\ v.keys = {}
        nums == FindAll(v.text, 1)
    IN  IF falsy THEN <<None, None>>
        ELSE IF /\ v.type = "dict" /\ "coordinates" \in v.keys
                /\ Len(v.coordinates) >= 2
        THEN <<v.coordinates[2], v.coordinates[1]>>
        ELSE IF v.type = "str" /\ Len(nums) >= 2
        THEN <<Some(Float(nums[2])), Some(Float(nums[1]))>>
        ELSE <<None, None>>

\* the pair <<lat, lon>>
extract_coordinates(value) ==
    LET v == value[1]
        falsy == \/ value = None
                 \/ v.type = "str" /\ v.text = <<>>
                 \/ v.type = "dict" /\ v.keys = {}
        nums == FindAll(v.text, 1)
    IN  IF falsy THEN <<None, None>>
        ELSE IF /\ v.type = "dict" /\ "coordinates" \in v.keys
                /\ v.coordsIsList /\ Len(v.coordinates) >= 2
        THEN <<v.coordinates[2], v.coordinates[1]>>
        ELSE IF v.type = "str" /\ Len(nums) >= 2
        THEN <<Some(Float(nums[2])), Some(Float(nums[1]))>>
        ELSE <<None, None>>

\* ------------------------------------------------------------------ state
VARIABLES
    stations,      \* committed rows of table stations
    reviews,       \* committed rows of table reviews
    favorites,     \* committed rows of table favorites
    fk,            \* reviews_station_id_fkey: "absent", "plain" or "cascade"
    uq,            \* unique index on stations (name, address) exists
    addressNullable, \* stations.address takes NULL (schema.sql decides)
    nextId,        \* sequence of stations.id
    nextReviewId,  \* sequence of reviews.id
    clock,         \* logical time, NOW() of the latest import transaction
    pc,            \* position of import_data
    runs,          \* import_data invocations so far
    feed,          \* index into URLS of the feed being processed
    data,          \* load_dataset's result for the current feed
    pos,           \* index of the current item of data
    before,        \* result of the existence lookup for the current item
    added,         \* per-feed counter
    updated,       \* per-feed counter
    added_total,
    updated_total,
    txRows,        \* station rows written by the import's open transaction
    fetched,       \* per feed: "pending", "ok" or "failed"
    payload,       \* per feed: what load_dataset returned in this run
    report,        \* per feed: the (added, updated) line printed, or None
    exc,           \* what import_data raised: "none", or the statement
    serving,       \* startup_event has returned: handlers accept requests
    ops,           \* requests that changed the store so far
    \* history, read by the properties only
    everReconciled, \* a reconciliation has committed
    prev,          \* payload of the latest invocation that returned
    quiet,         \* no request changed the store since the latest commit
    calm,          \* quiet, as it was when the invocation at "done" committed
    raced,         \* a request changed the store since import_data was called
    \* the merge of one feed item, taken on its own
    unit,          \* the item, its feed, the locals of the loop body, the
                   \* rows written and the position in the body
    \* simple_kmeans
    km,            \* the arguments, numpy's global generator, the locals
                   \* and the position of a call
    \* api_get_stats
    stats          \* the position of a request, what its queries returned
                   \* and its response

\* the store, import_data, the handlers and their history
appVars ==
    << stations, reviews, favorites, fk, uq, addressNullable, nextId,
       nextReviewId, clock,
       pc, runs, feed, data, pos, before, added, updated, added_total,
       updated_total, txRows, fetched, payload, report, exc, serving, ops,
       everReconciled, prev, quiet, calm, raced >>

vars == <<appVars, unit, km, stats>>

\* what import_data and the request handlers leave alone
aside == <<unit, km, stats>>

\* ------------------------------------------------------------------ store
NoOrphans(revs, rows) ==
    \A r \in revs : \E s \in rows : s.id = r.station_id

\* the rows of `rows` that the unique index on (name, address) sets against
\* a row with this name and address; a NULL address equals no address
Conflicts(rows, name, address) ==
    {r \in rows : address /= None /\ r.name = name /\ r.address = address}

NoDuplicates(rows) ==
    \A r \in rows : Conflicts(rows, r.name, r.address) \subseteq {r}

Ids(rows) == {r.id : r \in rows}

\* what the import's transaction reads (READ COMMITTED): the committed rows,
\* with its own uncommitted writes in place of the rows they replace
View == {r \in stations : r.id \notin Ids(txRows)} \cup txRows

\* ------------------------------------------------------------- import_data
\* bind parameters whose eco flag does not look at the feed
Params_eco_fixed(cells, key) ==
    LET c == extract_coordinates(cells.geoData)
    IN  [name |-> cells.FullName[1], admarea |-> cells.AdmArea,
         district |-> cells.District, address |-> cells.Address,
         owner |-> cells.Owner, test_date |-> safe_parse_date(cells.TestDate),
         eco_status |-> TRUE, latitude |-> c[1], longitude |-> c[2]]

\* the bind parameters of the upsert for one feed item
Params(cells, key) ==
    LET c == extract_coordinates(cells.geoData)
    IN  [name |-> cells.FullName[1], admarea |-> cells.AdmArea,
         district |-> cells.District, address |-> cells.Address,
         owner |-> cells.Owner, test_date |-> safe_parse_date(cells.TestDate),
         eco_status |-> (key = "eco"), latitude |-> c[1], longitude |-> c[2]]

\* the store takes the bound latitude and longitude: NULL or a number (a
\* list is no value of a numeric column, and the statement raises)
Storable(p) ==
    /\ p.latitude = None \/ IsNumber(p.latitude)
    /\ p.longitude = None \/ IsNumber(p.longitude)

\* the row that INSERT INTO stations ... VALUES (..., NOW(), NOW()) adds
Inserted(p, now, id) ==
    [id |-> id, name |-> p.name, address |-> p.address,
     admarea |-> p.admarea, district |-> p.district, owner |-> p.owner,
     test_date |-> p.test_date, eco_status |-> p.eco_status,
     latitude |-> p.latitude, longitude |-> p.longitude,
     created_at |-> now, updated_at |-> now]

\* row r after DO UPDATE SET ... = EXCLUDED. ..., updated_at = NOW()
Updated(r, p, now) ==
    [r EXCEPT !.admarea = p.admarea, !.district = p.district,
              !.owner = p.owner, !.test_date = p.test_date,
              !.eco_status = p.eco_status, !.latitude = p.latitude,
              !.longitude = p.longitude, !.updated_at = now]

\* a DO UPDATE that also stamps created_at
upsert_sql_stamps_created(rows, p, now, id, index) ==
    LET hit == Conflicts(rows, p.name, p.address)
    IN  IF ~index \/ ~Storable(p)
        THEN [error |-> TRUE, inserted |-> FALSE, written |-> {}]
        ELSE IF hit = {}
        THEN [error |-> FALSE, inserted |-> TRUE,
              written |-> {Inserted(p, now, id)}]
        ELSE [error |-> FALSE, inserted |-> FALSE,
              written |-> {[Updated(r, p, now) EXCEPT !.created_at = now]
                              : r \in hit}]

\* an upsert whose conflict target is the name alone
upsert_sql_by_name(rows, p, now, id, index) ==
    LET hit == {r \in rows : r.name = p.name}
    IN  IF ~index \/ ~Storable(p)
        THEN [error |-> TRUE, inserted |-> FALSE, written |-> {}]
        ELSE IF hit = {}
        THEN [error |-> FALSE, inserted |-> TRUE,
              written |-> {Inserted(p, now, id)}]
        ELSE [error |-> FALSE, inserted |-> FALSE,
              written |-> {Updated(r, p, now) : r \in hit}]

\* a plain INSERT: the unique violation is raised
upsert_sql_insert_only(rows, p, now, id, index) ==
    LET hit == Conflicts(rows, p.name, p.address)
    IN  IF ~index \/ ~Storable(p) \/ hit /= {}
        THEN [error |-> TRUE, inserted |-> FALSE, written |-> {}]
        ELSE [error |-> FALSE, inserted |-> TRUE,
              written |-> {Inserted(p, now, id)}]

\* a DO UPDATE whose SET list leaves longitude out
upsert_sql_keeps_longitude(rows, p, now, id, index) ==
    LET hit == Conflicts(rows, p.name, p.address)
    IN  IF ~index \/ ~Storable(p)
        THEN [error |-> TRUE, inserted |-> FALSE, written |-> {}]
        ELSE IF hit = {}
        THEN [error |-> FALSE, inserted |-> TRUE,
              written |-> {Inserted(p, now, id)}]
        ELSE [error |-> FALSE, inserted |-> FALSE,
              written |-> {[Updated(r, p, now)
                              EXCEPT !.longitude = r.longitude] : r \in hit}]

\* INSERT ... ON CONFLICT (name, address) DO UPDATE on the rows the statement
\* sees: the rows it writes, whether it inserted, and whether it raised
\* (ON CONFLICT needs a unique index on its columns, and the columns take
\* the values bound)
upsert_sql(rows, p, now, id, index) ==
    LET hit == Conflicts(rows, p.name, p.address)
    IN  IF ~index \/ ~Storable(p)
        THEN [error |-> TRUE, inserted |-> FALSE, written |-> {}]
        ELSE IF hit = {}
        THEN [error |-> FALSE, inserted |-> TRUE,
              written |-> {Inserted(p, now, id)}]
        ELSE [error |-> FALSE, inserted |-> FALSE,
              written |-> {Updated(r, p, now) : r \in hit}]

NoFeed == [k \in DOMAIN URLS |-> None]

Pending == [k \in DOMAIN URLS |-> "pending"]

\* the locals of import_data outside an invocation
LocalsReset ==
    /\ feed' = 1 /\ data' = <<>> /\ pos' = 1 /\ before' = FALSE
    /\ added' = 0 /\ updated' = 0 /\ added_total' = 0 /\ updated_total' = 0
    /\ fetched' = Pending /\ payload' = NoFeed /\ report' = NoFeed

store == <<stations, reviews, favorites, nextId, nextReviewId>>

schema == <<fk, uq, addressNullable>>

locals ==
    << feed, data, pos, before, added, updated, added_total, updated_total,
       fetched, payload, report >>

history == <<everReconciled, prev, quiet, calm, raced>>

\* the tables after schema.sql ran.  The file is not among the sources; the
\* ingestion is described as keeping the catalog and the user content, so
\* the script creates what is missing and keeps the tables it finds.
schema_sql(tables) == tables

\* startup_event or the command line calls import_data(), which begins with
\* db.create_tables(): schema.sql is executed
create_tables ==
    /\ pc = "idle" /\ runs + ops < MaxSteps
    /\ pc' = "reconcile" /\ runs' = runs + 1
    /\ LET kept == schema_sql(<<stations, reviews, favorites>>)
       IN  stations' = kept[1] /\ reviews' = kept[2] /\ favorites' = kept[3]
    /\ raced' = FALSE
    /\ UNCHANGED <<nextId, nextReviewId, schema, aside, clock, locals, txRows, exc,
                   serving, ops, everReconciled, prev, quiet, calm>>

\* schema.sql is missing or the store rejects it: import_data raises
create_tables_raises ==
    /\ pc = "idle" /\ runs + ops < MaxSteps
    /\ pc' = "raised" /\ runs' = runs + 1
    /\ exc' = "create_tables"
    /\ raced' = FALSE
    /\ UNCHANGED <<store, schema, aside, clock, locals, txRows, serving, ops,
                   everReconciled, prev, quiet, calm>>

\* a first DO block that leaves the constraint as it finds it
ReconciledFk_as_found(old) == old

\* the state of reviews_station_id_fkey after the first DO block
ReconciledFk(old) == "cascade"

\* a second DO block that leaves the index as it finds it
ReconciledUq_as_found(old) == old

\* the unique index after the second DO block
ReconciledUq(old) == TRUE

\* ADD CONSTRAINT validates the rows of reviews (a constraint that is dropped
\* and added again has kept them valid); CREATE UNIQUE INDEX validates the
\* rows of stations
ReconcileCan ==
    /\ fk = "absent" => NoOrphans(reviews, stations)
    /\ ~uq => NoDuplicates(stations)

\* an import that goes on to the feeds whatever the reconciliation did
AfterReconcile_goes_on(ok) == "fetch"

\* the position after the reconciling transaction ended, well or not
AfterReconcile(ok) == IF ok THEN "fetch" ELSE "raised"

\* the two DO blocks commit; the merge transaction begins (NOW() is its
\* start time)
Reconcile ==
    /\ pc = "reconcile" /\ ReconcileCan
    /\ fk' = ReconciledFk(fk) /\ uq' = ReconciledUq(uq)
    /\ pc' = AfterReconcile(TRUE) /\ clock' = clock + 1
    /\ everReconciled' = TRUE
    /\ UNCHANGED <<store, addressNullable, aside, runs, locals, txRows, exc, serving,
                   ops, prev, quiet, calm, raced>>

\* a DO block raises (validation fails, or the store refuses the DDL): the
\* transaction rolls back both blocks and import_data raises
ReconcileRaises ==
    /\ pc = "reconcile"
    /\ pc' = AfterReconcile(FALSE)
    /\ exc' = IF pc' = "raised" THEN "reconcile" ELSE exc
    /\ UNCHANGED <<store, schema, aside, clock, runs, locals, txRows, serving, ops,
                   history>>

\* the position after the current feed: the next feed, or the end of the
\* with block
AfterFeed(k) == IF k < Len(URLS) THEN "fetch" ELSE "commit"

NextFeedIdx(k) == IF k < Len(URLS) THEN k + 1 ELSE k

\* load_dataset(url) returns the feed's rows
FetchOk ==
    /\ pc = "fetch"
    /\ \E p \in Payloads :
         /\ data' = p
         /\ payload' = [payload EXCEPT ![feed] = Some(p)]
    /\ fetched' = [fetched EXCEPT ![feed] = "ok"]
    /\ added' = 0 /\ updated' = 0 /\ pos' = 1
    /\ pc' = "item"
    /\ UNCHANGED <<store, schema, aside, clock, runs, feed, before, added_total,
                   updated_total, report, txRows, exc, serving, ops,
                   history>>

\* a fetch error that is not caught
AfterFetchError_uncaught(k) == "raised"

\* the position after load_dataset raised for feed k: `continue`
AfterFetchError(k) == AfterFeed(k)

\* load_dataset(url) raises (timeout, HTTP error status)
FetchFails ==
    /\ pc = "fetch"
    /\ fetched' = [fetched EXCEPT ![feed] = "failed"]
    /\ pc' = AfterFetchError(feed)
    /\ feed' = NextFeedIdx(feed)
    /\ UNCHANGED <<store, schema, aside, clock, runs, data, pos, before, added,
                   updated, added_total, updated_total, payload, report,
                   txRows, exc, serving, ops, history>>

\* the for loop is exhausted: the feed's line is printed, the totals grow
EndFeed ==
    /\ pc = "item" /\ pos > Len(data)
    /\ report' = [report EXCEPT ![feed] = Some(<<added, updated>>)]
    /\ added_total' = added_total + added
    /\ updated_total' = updated_total + updated
    /\ pc' = AfterFeed(feed)
    /\ feed' = NextFeedIdx(feed)
    /\ UNCHANGED <<store, schema, aside, clock, runs, data, pos, before, added,
                   updated, payload, fetched, txRows, exc, serving, ops,
                   history>>

\* a check that looks at the name only
Valid_name_only(cells) == Truthy(cells.FullName)

\* `if not name or not address`
Valid(cells) == Truthy(cells.FullName) /\ Truthy(cells.Address)

\* an item without name or address: continue
SkipItem ==
    /\ pc = "item" /\ pos <= Len(data)
    /\ ~Valid(data[pos])
    /\ pos' = pos + 1
    /\ UNCHANGED <<store, schema, aside, clock, pc, runs, feed, data, before, added,
                   updated, added_total, updated_total, fetched, payload,
                   report, txRows, exc, serving, ops, history>>

\* SELECT 1 FROM stations WHERE name = :name AND address = :address
Lookup ==
    /\ pc = "item" /\ pos <= Len(data)
    /\ Valid(data[pos])
    /\ before' = (\E r \in View : /\ r.name = data[pos].FullName[1]
                                  /\ r.address = data[pos].Address)
    /\ pc' = "upsert"
    /\ UNCHANGED <<store, schema, aside, clock, runs, feed, data, pos, added,
                   updated, added_total, updated_total, fetched, payload,
                   report, txRows, exc, serving, ops, history>>

\* counters that take every upsert for an insert
Counted_as_added(b, a, u) == <<a + 1, u>>

\* the counters <<added, updated>> after the upsert of one item
Counted(b, a, u) == IF b THEN <<a, u + 1>> ELSE <<a + 1, u>>

\* what is left of the transaction's writes when a statement raises inside
\* the with block: the block rolls the transaction back
RolledBack(rows) == {}

\* conn.execute(upsert_sql, params), then the counters
Upsert ==
    /\ pc = "upsert"
    /\ LET out == upsert_sql(View, Params(data[pos], URLS[feed]), clock,
                             nextId, uq)
       IN  IF out.error
           THEN /\ txRows' = RolledBack(txRows) /\ pc' = "raised"
                /\ exc' = "write"
                /\ UNCHANGED <<nextId, added, updated, pos>>
           ELSE /\ txRows' = {r \in txRows : r.id \notin Ids(out.written)}
                                \cup out.written
                /\ nextId' = IF out.inserted THEN nextId + 1 ELSE nextId
                /\ added' = Counted(before, added, updated)[1]
                /\ updated' = Counted(before, added, updated)[2]
                /\ pos' = pos + 1
                /\ pc' = "item"
                /\ exc' = exc
    /\ UNCHANGED <<stations, reviews, favorites, nextReviewId, schema, aside, clock,
                   runs, feed, data, before, added_total, updated_total,
                   fetched, payload, report, serving, ops, history>>

\* the store rejects a statement of the merge (a value it cannot take, a
\* lost connection): the exception leaves the with block, which rolls the
\* transaction back, and import_data
WriteRaises ==
    /\ pc = "upsert"
    /\ txRows' = RolledBack(txRows)
    /\ pc' = "raised"
    /\ exc' = "write"
    /\ UNCHANGED <<store, schema, aside, clock, runs, locals, serving, ops, history>>

\* the with block of the merge ends: the transaction commits; the totals
\* are printed
Commit ==
    /\ pc = "commit"
    /\ stations' = View /\ txRows' = {}
    /\ pc' = "done"
    /\ calm' = quiet /\ quiet' = TRUE
    /\ UNCHANGED <<reviews, favorites, nextId, nextReviewId, schema, aside, clock,
                   runs, locals, exc, serving, ops, everReconciled, prev,
                   raced>>

\* import_data returns to startup_event, or the process ends
Return ==
    /\ pc = "done"
    /\ pc' = "idle" /\ serving' = TRUE
    /\ prev' = payload /\ calm' = FALSE
    /\ LocalsReset
    /\ UNCHANGED <<store, schema, aside, clock, runs, txRows, exc, ops,
                   everReconciled, quiet, raced>>

\* startup_event catches what import_data raised and goes on
Caught ==
    /\ pc = "raised"
    /\ pc' = "idle" /\ serving' = TRUE
    /\ exc' = "none"
    /\ LocalsReset
    /\ UNCHANGED <<store, schema, aside, clock, runs, txRows, ops, history>>

\* ---------------------------------------------------------------- handlers
\* The handlers run one transaction per request and commit at its end; a
\* statement that needs a row or an index entry the import's open
\* transaction holds waits for that transaction to end (the action is not
\* enabled).
importVars ==
    <<pc, runs, locals, txRows, clock, exc, everReconciled, prev, calm>>

\* one more request has changed the store; a request that only answers
\* (an error status, or a statement that matches no row) leaves the state
\* as it is
Served ==
    LET same == <<stations, reviews, favorites>>'
                    = <<stations, reviews, favorites>>
    IN  /\ ops' = IF same THEN ops ELSE ops + 1
        /\ quiet' = (quiet /\ same)
        /\ raced' = (raced \/ ~same)

\* the body of POST /admin/stations after its parsing: name and address are
\* stripped, latitude and longitude are floats (tenths) or None
StationForm(name, address, lat) ==
    [name |-> name, address |-> address, district |-> None,
     admarea |-> Some("adm"), owner |-> None, eco_status |-> FALSE,
     latitude |-> lat, longitude |-> None, test_date |-> None]

StationForms ==
    { StationForm("A", Some("x"), None), StationForm("B", None, None),
      StationForm("", Some("x"), None), StationForm("B", None, Some(950)) }

LatOk(lat) == lat = None \/ (lat[1] >= -900 /\ lat[1] <= 900)

LonOk(lon) == lon = None \/ (lon[1] >= -1800 /\ lon[1] <= 1800)

\* INSERT INTO stations of admin_create_station on the committed rows; the
\* statement raises on a unique violation, and on a NULL address when the
\* column does not take one.  created_at and updated_at take the columns'
\* defaults.
insert_station(rows, d, now, id, index) ==
    IF \/ index /\ Conflicts(rows, d.name, d.address) /= {}
       \/ d.address = None /\ ~addressNullable
    THEN [error |-> TRUE, rows |-> rows]
    ELSE [error |-> FALSE,
          rows |-> rows \cup
            {[id |-> id, name |-> d.name, address |-> d.address,
              admarea |-> d.admarea, district |-> d.district,
              owner |-> d.owner, test_date |-> d.test_date,
              eco_status |-> d.eco_status, latitude |-> d.latitude,
              longitude |-> d.longitude,
              created_at |-> now, updated_at |-> now]}]

admin_create_station ==
    /\ serving /\ runs + ops < MaxSteps
    /\ \E d \in StationForms :
         IF d.name = "" \/ ~LatOk(d.latitude) \/ ~LonOk(d.longitude)
         THEN UNCHANGED <<stations, nextId>>
         ELSE /\ ~(uq /\ Conflicts(txRows, d.name, d.address) /= {})
              /\ LET out == insert_station(stations, d, clock, nextId, uq)
                 IN  /\ stations' = out.rows
                     /\ nextId' = IF out.error THEN nextId ELSE nextId + 1
    /\ UNCHANGED <<reviews, favorites, nextReviewId, schema, aside, importVars,
                   serving>>
    /\ Served

\* the bodies of PUT /admin/stations/{id}: the fields in the body's order
StationUpdates ==
    { << <<"name", "A">> >>, << <<"latitude", Some(950)>> >>,
      << <<"admarea", Some("adm2")>>, <<"address", Some("x")>> >> }

AllowedFields ==
    {"name", "address", "district", "admarea", "owner", "eco_status",
     "latitude", "longitude", "test_date"}

RECURSIVE update_fields(_, _, _, _)
\* the UPDATE statements of admin_update_station, one per field of the body,
\* on row r with `others` the other rows: the row after them, or an error
\* at the first statement the unique index rejects
update_fields(r, others, d, index) ==
    IF d = <<>> THEN [error |-> FALSE, row |-> r]
    ELSE LET f  == Head(d)[1]
             r2 == IF f \in AllowedFields THEN [r EXCEPT ![f] = Head(d)[2]]
                   ELSE r
         IN  IF index /\ Conflicts(others, r2.name, r2.address) /= {}
             THEN [error |-> TRUE, row |-> r]
             ELSE update_fields(r2, others, Tail(d), index)

\* the value checks that answer 400 before any statement
UpdateValid(d) ==
    \A i \in 1..Len(d) :
        /\ d[i][1] = "latitude" => LatOk(d[i][2])
        /\ d[i][1] = "longitude" => LonOk(d[i][2])

admin_update_station ==
    /\ serving /\ runs + ops < MaxSteps
    /\ \E id \in 1..nextId, d \in StationUpdates :
         IF ~(\E r \in stations : r.id = id) \/ ~UpdateValid(d)
         THEN UNCHANGED stations
         ELSE LET r   == CHOOSE x \in stations : x.id = id
                  out == update_fields(r, stations \ {r}, d, uq)
                  mine == update_fields(r, txRows \ {r}, d, uq)
              IN  /\ id \notin Ids(txRows)
                  /\ ~mine.error
                  /\ stations' = IF out.error THEN stations
                                 ELSE (stations \ {r}) \cup {out.row}
    /\ UNCHANGED <<reviews, favorites, nextId, nextReviewId, schema, aside,
                   importVars, serving>>
    /\ Served

\* DELETE FROM stations WHERE id = :id under the foreign key of reviews:
\* "cascade" deletes the referencing reviews, "plain" rejects the delete
\* while a review references the row, "absent" leaves the reviews
delete_station_sql(rows, revs, id, key) ==
    IF key = "plain" /\ (\E v \in revs : v.station_id = id)
    THEN [stations |-> rows, reviews |-> revs]
    ELSE [stations |-> {r \in rows : r.id /= id},
          reviews |-> IF key = "cascade"
                      THEN {v \in revs : v.station_id /= id}
                      ELSE revs]

\* the effect of a station delete on the store; favorites reference
\* stations with a cascading foreign key
DeleteStation(id) ==
    /\ ~(id \in Ids(stations) /\ id \in Ids(txRows))
    /\ LET out == delete_station_sql(stations, reviews, id, fk)
       IN  /\ stations' = out.stations
           /\ reviews' = out.reviews
           /\ favorites' = IF id \in Ids(out.stations) THEN favorites
                           ELSE {f \in favorites : f.station_id /= id}

admin_delete_station ==
    /\ serving /\ runs + ops < MaxSteps
    /\ \E id \in 1..nextId : DeleteStation(id)
    /\ UNCHANGED <<nextId, nextReviewId, schema, aside, importVars, serving>>
    /\ Served

\* StationCRUD.delete_station
delete_station ==
    /\ serving /\ runs + ops < MaxSteps
    /\ \E id \in 1..nextId : DeleteStation(id)
    /\ UNCHANGED <<nextId, nextReviewId, schema, aside, importVars, serving>>
    /\ Served

\* INSERT INTO reviews: the foreign key, when there is one, rejects a
\* station_id that is no committed station
insert_review(revs, rows, sid, rid, key) ==
    IF key /= "absent" /\ sid \notin Ids(rows) THEN revs
    ELSE revs \cup {[id |-> rid, station_id |-> sid, user_id |-> "u1"]}

Ratings == {0, 5}

\* POST /station/{station_id}/review
add_review ==
    /\ serving /\ runs + ops < MaxSteps
    /\ \E sid \in 1..nextId, rating \in Ratings :
         IF rating < 1 \/ rating > 5 THEN UNCHANGED <<reviews, nextReviewId>>
         ELSE /\ reviews' = insert_review(reviews, stations, sid,
                                          nextReviewId, fk)
              /\ nextReviewId' = IF reviews' = reviews THEN nextReviewId
                                 ELSE nextReviewId + 1
    /\ UNCHANGED <<stations, favorites, nextId, schema, aside, importVars, serving>>
    /\ Served

\* POST /admin/reviews
admin_create_review ==
    /\ serving /\ runs + ops < MaxSteps
    /\ \E sid \in 1..nextId, rating \in Ratings :
         IF rating < 1 \/ rating > 5 THEN UNCHANGED <<reviews, nextReviewId>>
         ELSE /\ reviews' = insert_review(reviews, stations, sid,
                                          nextReviewId, fk)
              /\ nextReviewId' = IF reviews' = reviews THEN nextReviewId
                                 ELSE nextReviewId + 1
    /\ UNCHANGED <<stations, favorites, nextId, schema, aside, importVars, serving>>
    /\ Served

\* DELETE /admin/reviews/{review_id}
admin_delete_review ==
    /\ serving /\ runs + ops < MaxSteps
    /\ \E rid \in 1..nextReviewId : reviews' = {v \in reviews : v.id /= rid}
    /\ UNCHANGED <<stations, favorites, nextId, nextReviewId, schema, aside,
                   importVars, serving>>
    /\ Served

\* POST /station/{station_id}/favorite: ON CONFLICT DO NOTHING
add_favorite ==
    /\ serving /\ runs + ops < MaxSteps
    /\ \E sid \in 1..nextId :
         favorites' = IF sid \in Ids(stations)
                      THEN favorites \cup {[user_id |-> "u1",
                                            station_id |-> sid]}
                      ELSE favorites
    /\ UNCHANGED <<stations, reviews, nextId, nextReviewId, schema, aside,
                   importVars, serving>>
    /\ Served

\* POST /station/{station_id}/unfavorite
remove_favorite ==
    /\ serving /\ runs + ops < MaxSteps
    /\ \E sid \in 1..nextId :
         favorites' = favorites \ {[user_id |-> "u1", station_id |-> sid]}
    /\ UNCHANGED <<stations, reviews, nextId, nextReviewId, schema, aside,
                   importVars, serving>>
    /\ Served

StationWrite ==
    \/ admin_create_station \/ admin_update_station
    \/ admin_delete_station \/ delete_station

HandlerNext ==
    \/ StationWrite
    \/ add_review \/ admin_create_review \/ admin_delete_review
    \/ add_favorite \/ remove_favorite

ImportNext ==
    \/ create_tables \/ create_tables_raises
    \/ Reconcile \/ ReconcileRaises
    \/ FetchOk \/ FetchFails \/ EndFeed \/ SkipItem \/ Lookup
    \/ Upsert \/ WriteRaises \/ Commit \/ Return \/ Caught

SchemaStates == {"absent", "plain", "cascade"}

\* the store before the application first starts: empty tables, with the
\* constraints of whatever version of the schema created them
\* no item is being merged on its own
UnitIdle ==
    [item |-> <<>>, key |-> "none", at |-> "idle", params |-> None,
     exc |-> "none", written |-> {}]

\* no call of simple_kmeans
KmIdle == [at |-> "idle"]

\* no request for /api/stats
StatsIdle == [at |-> "none"]

Init ==
    /\ unit = UnitIdle /\ km = KmIdle /\ stats = StatsIdle
    /\ stations = {} /\ reviews = {} /\ favorites = {}
    /\ fk \in SchemaStates /\ uq \in BOOLEAN /\ addressNullable \in BOOLEAN
    /\ nextId = 1 /\ nextReviewId = 1 /\ clock = 0
    /\ pc = "idle" /\ runs = 0
    /\ feed = 1 /\ data = <<>> /\ pos = 1 /\ before = FALSE
    /\ added = 0 /\ updated = 0 /\ added_total = 0 /\ updated_total = 0
    /\ txRows = {} /\ fetched = Pending /\ payload = NoFeed
    /\ report = NoFeed /\ exc = "none"
    /\ serving = FALSE /\ ops = 0
    /\ everReconciled = FALSE /\ prev = <<>> /\ quiet = TRUE /\ calm = FALSE
    /\ raced = FALSE

Next == ImportNext \/ HandlerNext

Spec == Init /\ [][Next]_vars

\* ------------------------------------------- the merge of one feed item
\* The body of the loop over the items of a feed (import_data.py:134-160),
\* for one item and an empty table with the unique index in place.

\* the longest text of a geoData value
MaxText == 4

\* the longest list under "coordinates"
MaxCoords == 3

TextChars == {"-", ".", "3", "5", " "}

\* the texts whose numbers carry at most one decimal digit
OneDecimal(t) ==
    \A i \in 1..Len(t) :
        ~(/\ t[i] = "." /\ i + 2 <= Len(t)
          /\ t[i + 1] \in Digits /\ t[i + 2] \in Digits)

Texts ==
    {t \in UNION {[1..n -> TextChars] : n \in 0..MaxText} : OneDecimal(t)}

\* the entries of a list of a JSON document: null, numbers, nested lists
Entries == {None, Some(305), Some(557), Some(-1850), NotNumber}

CoordLists == UNION {[1..n -> Entries] : n \in 0..MaxCoords}

\* the values of item["Cells"]["geoData"]
GeoValues ==
    {None, GeoOther, GeoDict({}, FALSE, <<>>), GeoDict({"type"}, FALSE, <<>>),
     GeoDict({"coordinates"}, FALSE, <<>>),
     GeoDict({"coordinates"}, FALSE, <<NotNumber, NotNumber>>)}
        \cup {GeoDict({"type", "coordinates"}, TRUE, c) : c \in CoordLists}
        \cup {GeoStr(t) : t \in Texts}

\* "31.02.2023"
DateNoSuchDay == Some(<<"3", "1", ".", "0", "2", ".", "2", "0", "2", "3">>)

\* the values of item["Cells"]["TestDate"]
DateValues ==
    {None, Some(<<>>), DateDMY, DateYMD, DateGarbage, DateNoSuchDay}

Items ==
    {Cells(n, Some("x"), "v1", d, g) :
        n \in {Some("A"), Some("")}, d \in DateValues, g \in GeoValues}

\* lines 135-154: the validity check, then extract_coordinates and
\* safe_parse_date, then the bind parameters
NormalizeItem ==
    /\ unit.at = "item"
    /\ unit' =
         IF ~Valid(unit.item) THEN [unit EXCEPT !.at = "skipped"]
         ELSE IF extract_coordinates_raises(unit.item.geoData)
         THEN [unit EXCEPT !.at = "raised", !.exc = "extract_coordinates"]
         ELSE [unit EXCEPT !.at = "bound",
                           !.params = Some(Params(unit.item, unit.key))]
    /\ UNCHANGED <<appVars, km, stats>>

\* line 160: conn.execute(upsert_sql, params)
ExecuteUpsert ==
    /\ unit.at = "bound"
    /\ LET out == upsert_sql({}, unit.params[1], 1, 1, TRUE)
       IN  unit' = IF out.error
                   THEN [unit EXCEPT !.at = "raised", !.exc = "write"]
                   ELSE [unit EXCEPT !.at = "written",
                                     !.written = out.written]
    /\ UNCHANGED <<appVars, km, stats>>

\* an idle application with the reconciled schema
AppIdle ==
    /\ stations = {} /\ reviews = {} /\ favorites = {}
    /\ fk = "cascade" /\ uq = TRUE /\ addressNullable = TRUE
    /\ nextId = 1 /\ nextReviewId = 1 /\ clock = 0
    /\ pc = "idle" /\ runs = 0
    /\ feed = 1 /\ data = <<>> /\ pos = 1 /\ before = FALSE
    /\ added = 0 /\ updated = 0 /\ added_total = 0 /\ updated_total = 0
    /\ txRows = {} /\ fetched = Pending /\ payload = NoFeed
    /\ report = NoFeed /\ exc = "none"
    /\ serving = FALSE /\ ops = 0
    /\ everReconciled = FALSE /\ prev = <<>> /\ quiet = TRUE /\ calm = FALSE
    /\ raced = FALSE

ItemInit ==
    /\ AppIdle /\ km = KmIdle /\ stats = StatsIdle
    /\ unit \in {[UnitIdle EXCEPT !.item = it, !.key = k, !.at = "item"] :
                    it \in Items, k \in {URLS[i] : i \in DOMAIN URLS}}

ItemNext == NormalizeItem \/ ExecuteUpsert

SpecItem == ItemInit /\ [][ItemNext]_vars

\* ----------------------------------------------------------- simple_kmeans
\* Calls of simple_kmeans(points, k) on one array of points.  A point is a
\* pair of integers; a centroid <<sx, sy, c>> stands for (sx / c, sy / c), so
\* that the means are exact.  km.first holds the labels of the first call,
\* km.moved tells that other code used the generator since the call before.

\* the most rows of points
MaxPoints == 3

\* the largest k
MaxK == 3

\* the states of numpy's global generator that the model tells apart
RngStates == 6

\* the default of the parameter max_iters
max_iters == 100

Grid == {<<0, 0>>, <<0, 1>>, <<4, 4>>}

PointArrays == UNION {[1..n -> Grid] : n \in 0..MaxPoints}

\* np.zeros(n, dtype=int)
Zeros(n) == [i \in 1..n |-> 0]

\* a test that never takes the early return
Degenerate_never(n, k) == FALSE

\* `if len(points) < k`
Degenerate(n, k) == n < k

\* a call that leaves the generator as it finds it
np_random_seed_skipped(r, seeded) == r

\* the generator after np.random.seed(42), called in state r: the state that
\* numpy gives the seed
np_random_seed(r, seeded) == seeded

RECURSIVE Draw(_, _, _)
\* k items of the sequence avail without replacement, as the generator in
\* state r picks them
Draw(avail, r, k) ==
    IF k = 0 THEN <<>>
    ELSE LET i == (r % Len(avail)) + 1
         IN  <<avail[i]>>
                 \o Draw(SubSeq(avail, 1, i - 1)
                            \o SubSeq(avail, i + 1, Len(avail)),
                         r \div Len(avail), k - 1)

\* np.random.choice(n, k, replace=False): k of the indices of n rows
Choice(r, n, k) == Draw([i \in 1..n |-> i], r, k)

\* the generator after a draw
Advance(r) == (r + 1) % RngStates

\* the square of the distance of point p to centroid c, times c[3] squared
Dist2(p, c) ==
    (p[1] * c[3] - c[1]) * (p[1] * c[3] - c[1])
        + (p[2] * c[3] - c[2]) * (p[2] * c[3] - c[2])

\* point p is nearer to centroid a than to centroid b
Nearer(p, a, b) == Dist2(p, a) * b[3] * b[3] < Dist2(p, b) * a[3] * a[3]

\* an argmin that counts the centroids from one
ArgMin_from_one(p, cs) ==
    CHOOSE i \in 1..Len(cs) :
        /\ \A j \in 1..Len(cs) : ~Nearer(p, cs[j], cs[i])
        /\ \A j \in 1..(i - 1) : Nearer(p, cs[i], cs[j])

\* np.argmin over the distances of p to the centroids: the first index,
\* from zero, of a nearest one
ArgMin(p, cs) ==
    (CHOOSE i \in 1..Len(cs) :
        /\ \A j \in 1..Len(cs) : ~Nearer(p, cs[j], cs[i])
        /\ \A j \in 1..(i - 1) : Nearer(p, cs[i], cs[j])) - 1

Labels(points, cs) == [i \in 1..Len(points) |-> ArgMin(points[i], cs)]

RECURSIVE SumOf(_, _, _, _)
\* the sum of coordinate d of the first n points with label l
SumOf(points, labels, l, d) ==
    IF points = <<>> THEN 0
    ELSE SumOf(Tail(points), Tail(labels), l, d)
             + (IF Head(labels) = l THEN Head(points)[d] ELSE 0)

\* new centroids that put a cluster without points on the first point
NewCentroids_reseeds(points, labels, cs) ==
    [i \in 1..Len(cs) |->
        LET n == Cardinality({j \in 1..Len(points) : labels[j] = i - 1})
        IN  IF n = 0 THEN <<points[1][1], points[1][2], 1>>
            ELSE <<SumOf(points, labels, i - 1, 1),
                   SumOf(points, labels, i - 1, 2), n>>]

\* points[labels == i].mean(axis=0) if np.any(labels == i) else centroids[i]
NewCentroids(points, labels, cs) ==
    [i \in 1..Len(cs) |->
        LET n == Cardinality({j \in 1..Len(points) : labels[j] = i - 1})
        IN  IF n = 0 THEN cs[i]
            ELSE <<SumOf(points, labels, i - 1, 1),
                   SumOf(points, labels, i - 1, 2), n>>]

\* np.allclose(a, b): the means of the model's points differ by more than
\* the tolerance or not at all
AllClose(a, b) ==
    \A i \in 1..Len(a) :
        /\ a[i][1] * b[i][3] = b[i][1] * a[i][3]
        /\ a[i][2] * b[i][3] = b[i][2] * a[i][3]

\* lines 431-436: the early return, or the seed and the first centroids
\* (np.random.choice raises when k exceeds the number of rows and when k is
\* negative).  With max_iters <= 0 the loop has no pass, and line 451 reads
\* the local `labels` that no pass has bound: the call raises.
simple_kmeans ==
    /\ km.at = "ready"
    /\ LET n == Len(km.points)
           r == np_random_seed(km.rng, km.seeded)
       IN  km' =
             IF Degenerate(n, km.k)
             THEN [km EXCEPT !.at = "returned", !.labels = Zeros(n),
                             !.iters = 0, !.centroids = <<>>]
             ELSE IF km.k > n \/ km.k < 0
             THEN [km EXCEPT !.at = "raised", !.rng = r, !.iters = 0,
                             !.labels = <<>>, !.centroids = <<>>]
             ELSE [km EXCEPT
                     !.at = IF km.max_iters <= 0 THEN "raised" ELSE "loop",
                     !.rng = Advance(r), !.iters = 0,
                     !.labels = <<>>,
                     !.centroids =
                        [i \in 1..km.k |->
                            LET p == km.points[Choice(r, n, km.k)[i]]
                            IN  <<p[1], p[2], 1>>]]
    /\ UNCHANGED <<appVars, unit, stats>>

\* lines 438-449: one pass of the loop; the call returns after the pass
\* that leaves the centroids as they are, or after max_iters passes.  With
\* k = 0 there is no centroid, and np.argmin raises on the empty rows of
\* distances.
Iterate ==
    /\ km.at = "loop"
    /\ LET labels == Labels(km.points, km.centroids)
           new    == NewCentroids(km.points, labels, km.centroids)
       IN  km' =
             IF km.k = 0
             THEN [km EXCEPT !.at = "raised"]
             ELSE IF AllClose(km.centroids, new)
             THEN [km EXCEPT !.at = "returned", !.labels = labels,
                             !.iters = km.iters + 1]
             ELSE [km EXCEPT !.at = IF km.iters + 1 = km.max_iters
                                    THEN "returned" ELSE "loop",
                             !.labels = labels, !.centroids = new,
                             !.iters = km.iters + 1]
    /\ UNCHANGED <<appVars, unit, stats>>

\* other code of the process uses the global generator before a call
other_random_call ==
    /\ km.at = "ready" /\ ~km.moved
    /\ \E r \in 0..(RngStates - 1) :
         r /= km.rng /\ km' = [km EXCEPT !.rng = r, !.moved = TRUE]
    /\ UNCHANGED <<appVars, unit, stats>>

\* the caller keeps the labels and calls again with the same arguments
call_again ==
    /\ km.at = "returned"
    /\ km' = [km EXCEPT !.at = "ready", !.moved = FALSE,
                        !.first = IF km.first = None THEN Some(km.labels)
                                  ELSE km.first]
    /\ UNCHANGED <<appVars, unit, stats>>

KMeansInit ==
    /\ AppIdle /\ unit = UnitIdle /\ stats = StatsIdle
    /\ km \in {[at |-> "ready", points |-> ps, k |-> k,
                max_iters |-> max_iters, rng |-> 0,
                seeded |-> sd, centroids |-> <<>>, labels |-> <<>>,
                iters |-> 0, first |-> None, moved |-> FALSE] :
                  ps \in PointArrays, k \in 1..MaxK,
                  sd \in 0..(RngStates - 1)}

KMeansNext == simple_kmeans \/ Iterate \/ other_random_call \/ call_again

SpecKMeans == KMeansInit /\ [][KMeansNext]_vars

\* ------------------------------------------- the arguments of simple_kmeans
\* Calls of simple_kmeans(points, k, max_iters) with every k and every
\* max_iters a caller can pass, on no points and on three groups of points.

\* the largest max_iters below the default
MaxIters == 2

\* three groups of two points: the points of a group are 1 apart, the
\* groups at least 8
GroupA == << <<0, 0>>, <<0, 1>> >>

GroupB == << <<20, 0>>, <<20, 1>> >>

GroupC == << <<20, 9>>, <<20, 10>> >>

\* the group of a point
GroupOf(p) == IF p[1] = 0 THEN 1 ELSE IF p[2] <= 1 THEN 2 ELSE 3

\* the six points, group after group, with the groups in every order
GroupArrays ==
    { GroupA \o GroupB \o GroupC, GroupA \o GroupC \o GroupB,
      GroupB \o GroupA \o GroupC, GroupB \o GroupC \o GroupA,
      GroupC \o GroupA \o GroupB, GroupC \o GroupB \o GroupA }

ArgArrays == {<<>>} \cup GroupArrays

KValues == {-1, 0} \cup 1..MaxK

IterLimits == 0..MaxIters \cup {max_iters}

KMeansArgsInit ==
    /\ AppIdle /\ unit = UnitIdle /\ stats = StatsIdle
    /\ km \in {[at |-> "ready", points |-> ps, k |-> k,
                max_iters |-> it, rng |-> 0,
                seeded |-> sd, centroids |-> <<>>, labels |-> <<>>,
                iters |-> 0, first |-> None, moved |-> FALSE] :
                  ps \in ArgArrays, k \in KValues, it \in IterLimits,
                  sd \in 0..(RngStates - 1)}

SpecKMeansArgs == KMeansArgsInit /\ [][KMeansNext]_vars

\* ------------------------------------------------------------ api_get_stats
\* One request for /api/stats on a catalog, while one other request that
\* writes stations is served by another worker.  The session of the request
\* runs its statements with the isolation the engine is created with
\* (connector.py:25): READ COMMITTED, each statement reads the rows
\* committed when it starts.

StatRow(id, name, adm, lat, lon, eco) ==
    [id |-> id, name |-> name, address |-> Some("x"), admarea |-> adm,
     district |-> None, owner |-> None, test_date |-> None,
     eco_status |-> eco, latitude |-> lat, longitude |-> lon,
     created_at |-> 0, updated_at |-> 0]

StatRows ==
    { StatRow(1, "P", Some("adm"), Some(0), Some(0), TRUE),
      StatRow(2, "Q", Some("adm"), Some(0), Some(10), FALSE),
      StatRow(3, "R", None, Some(40), Some(40), TRUE),
      StatRow(4, "S", Some("adm2"), Some(40), None, FALSE),
      StatRow(5, "T", Some("adm2"), None, None, FALSE) }

Catalogs == SUBSET StatRows

\* the sequences that list the elements of S once each
Orderings(S) ==
    {s \in [1..Cardinality(S) -> S] :
        \A i, j \in 1..Cardinality(S) : i /= j => s[i] /= s[j]}

\* WHERE admarea IS NOT NULL GROUP BY admarea: the groups
Areas(rows) == {r.admarea[1] : r \in {x \in rows : x.admarea /= None}}

\* COUNT(*) of a group
CountOf(rows, a) == Cardinality({r \in rows : r.admarea = Some(a)})

\* a first query without its ORDER BY
by_district_rows_unordered(rows) ==
    {[i \in 1..Len(s) |-> <<s[i], CountOf(rows, s[i])>>] :
        s \in Orderings(Areas(rows))}

\* the rows the first query can return: the groups with their counts, the
\* larger count first, groups of the same count in any order
\* (StationCRUD.get_stations_by_district runs the same query)
by_district_rows(rows) ==
    {t \in by_district_rows_unordered(rows) :
        \A i \in 1..(Len(t) - 1) : t[i][2] >= t[i + 1][2]}

\* WHERE latitude IS NOT NULL AND longitude IS NOT NULL
WithCoordinates(rows) ==
    {r \in rows : r.latitude /= None /\ r.longitude /= None}

\* eco_status::int
AsInt(b) == IF b THEN 1 ELSE 0

\* float(v) of a value of a numeric column
AsFloat(v) == v[1]

\* a `k` that stays as the response is created with
ScatterK_fixed(n) == 3

\* `k` of the response: 3, or 1 when fewer than 3 points were read
ScatterK(n) == IF n >= 3 THEN 3 ELSE 1

RECURSIVE Lloyd(_, _, _, _)
\* the loop of simple_kmeans from pass `passes` on: the labels it ends with
\* (labels and new are bound to the one value of each pass)
Lloyd(points, cs, passes, limit) ==
    CHOOSE out \in UNION { UNION {
        { IF AllClose(cs, new) \/ passes + 1 = limit THEN labels
          ELSE Lloyd(points, new, passes + 1, limit) }
            : new \in {NewCentroids(points, labels, cs)} }
            : labels \in {Labels(points, cs)} } : TRUE

\* what simple_kmeans(points, k) returns when the seeded generator is in
\* state r (k >= 1)
simple_kmeans_labels(points, k, r) ==
    IF Degenerate(Len(points), k) THEN Zeros(Len(points))
    ELSE Lloyd(points,
               [i \in 1..k |->
                   LET p == points[Choice(r, Len(points), k)[i]]
                   IN  <<p[1], p[2], 1>>],
               0, max_iters)

\* lines 456-464: the first query and by_district
api_get_stats_areas ==
    /\ stats.at = "idle"
    /\ \E t \in by_district_rows(stations) :
         stats' = [stats EXCEPT !.at = "areas", !.by_district = t,
                                !.start = stations]
    /\ UNCHANGED <<appVars, unit, km>>

\* lines 466-486: the second query, the points, the clusters, the response
api_get_stats_scatter ==
    /\ stats.at = "areas"
    /\ \E rows \in Orderings(WithCoordinates(stations)) :
       \E points \in {[i \in 1..Len(rows) |->
                          [lat |-> AsFloat(rows[i].latitude),
                           lon |-> AsFloat(rows[i].longitude),
                           eco |-> AsInt(rows[i].eco_status)]]} :
       \E coords \in {[i \in 1..Len(points) |->
                          <<points[i].lat, points[i].lon>>]} :
       \E labels \in {IF Len(points) >= 3
                       THEN simple_kmeans_labels(coords, 3, stats.seeded)
                       ELSE Zeros(Len(points))} :
         stats' =
           [stats EXCEPT
              !.at = "answered",
              !.fetched = [i \in 1..Len(rows) |-> rows[i].id],
              !.read = stations,
              !.invoked = (Len(points) >= 3),
              !.scatter =
                 [k |-> ScatterK(Len(points)),
                  points |->
                    [i \in 1..Len(points) |->
                       [lat |-> points[i].lat, lon |-> points[i].lon,
                        eco |-> points[i].eco, cluster |-> labels[i]]]]]
    /\ UNCHANGED <<appVars, unit, km>>

\* a started application that has one more request to serve, with the
\* reconciled schema and a catalog
StatsInit ==
    /\ stations \in Catalogs /\ reviews = {} /\ favorites = {}
    /\ fk = "cascade" /\ uq = TRUE /\ addressNullable = TRUE
    /\ nextId = Cardinality(StatRows) + 1 /\ nextReviewId = 1 /\ clock = 1
    /\ pc = "idle" /\ runs = 1
    /\ feed = 1 /\ data = <<>> /\ pos = 1 /\ before = FALSE
    /\ added = 0 /\ updated = 0 /\ added_total = 0 /\ updated_total = 0
    /\ txRows = {} /\ fetched = Pending /\ payload = NoFeed
    /\ report = NoFeed /\ exc = "none"
    /\ serving = TRUE /\ ops = MaxSteps - 2
    /\ everReconciled = TRUE /\ prev = <<>> /\ quiet = TRUE /\ calm = FALSE
    /\ raced = FALSE
    /\ unit = UnitIdle /\ km = KmIdle
    /\ stats \in {[at |-> "idle", seeded |-> sd, by_district |-> <<>>,
                   start |-> {}, fetched |-> <<>>, read |-> {},
                   invoked |-> FALSE,
                   scatter |-> [k |-> 3, points |-> <<>>]] :
                     sd \in 0..(RngStates - 1)}

StatsNext ==
    \/ api_get_stats_areas \/ api_get_stats_scatter
    \/ admin_create_station \/ admin_update_station \/ admin_delete_station

SpecStats == StatsInit /\ [][StatsNext]_vars

\* ------------------------------------------------------------- properties
\* a step of import_data (the handlers leave its position alone)
ImportStep == pc' /= pc \/ pos' /= pos \/ feed' /= feed

KeyOf(r) == <<r.name, r.address>>

CellsKey(c) == <<c.FullName[1], c.Address>>

ValidRecords(p) == SelectSeq(p, Valid)

\* the items with name and address that feed k returned in this invocation
Fetched(k) == IF payload[k] = None THEN <<>> ELSE ValidRecords(payload[k][1])

\* the keys of the items this invocation was given
PayloadKeys ==
    UNION {{CellsKey(Fetched(k)[i]) : i \in 1..Len(Fetched(k))}
              : k \in DOMAIN URLS}

\* a row without its update timestamp
Strip(r) ==
    [id |-> r.id, name |-> r.name, address |-> r.address,
     admarea |-> r.admarea, district |-> r.district, owner |-> r.owner,
     test_date |-> r.test_date, eco_status |-> r.eco_status,
     latitude |-> r.latitude, longitude |-> r.longitude,
     created_at |-> r.created_at]

\* row r holds the values the upsert binds for item c of feed k
Holds(r, c, k) ==
    LET p == Params(c, URLS[k])
    IN  /\ r.name = p.name /\ r.address = p.address
        /\ r.admarea = p.admarea /\ r.district = p.district
        /\ r.owner = p.owner /\ r.test_date = p.test_date
        /\ r.eco_status = p.eco_status
        /\ r.latitude = p.latitude /\ r.longitude = p.longitude

\* C1: no two persisted stations share the same (name, address) pair
C1_UniqueNameAddress ==
    \A r \in stations, t \in stations :
        (r.name = t.name /\ r.address = t.address) => r = t

\* C2: an invocation that replays the payloads of the invocation before it,
\* with no other writer since that one committed, reports added = 0 for
\* every feed, and its commit leaves every station row as it was except for
\* updated_at
C2_ReplayIsIdempotent ==
    [][(pc = "commit" /\ pc' = "done" /\ quiet /\ prev = payload)
         => /\ \A k \in DOMAIN URLS :
                 report[k] /= None => report[k][1][1] = 0
            /\ {Strip(r) : r \in stations'} = {Strip(r) : r \in stations}]_vars

C2_Witness ==
    /\ pc = "done" /\ calm /\ prev = payload
    /\ \E r \in stations : r.updated_at > r.created_at

\* C3: no step of an import run, committing or raising, removes a station
\* or changes a station's id, (name, address) or created_at
C3_ImportKeepsStations ==
    [][ImportStep =>
         \A s \in stations : \E t \in stations' :
             /\ t.id = s.id /\ t.name = s.name /\ t.address = s.address
             /\ t.created_at = s.created_at]_vars

C3_Witness ==
    /\ pc = "done"
    /\ \E r \in stations : r.updated_at = clock /\ r.created_at < clock

\* C4: an import run leaves the reviews and the favorites as they are, and
\* leaves every station whose (name, address) is in neither payload
\* unchanged in every field
C4_ImportFrame ==
    [][ImportStep =>
         /\ reviews' = reviews /\ favorites' = favorites
         /\ \A s \in stations : KeyOf(s) \notin PayloadKeys => s \in stations']_vars

C4_Witness ==
    /\ pc = "done" /\ reviews /= {}
    /\ added_total + updated_total > 0
    /\ \E s \in stations : KeyOf(s) \notin PayloadKeys

\* C5: when a write of the merge raises, the writes of every feed that was
\* already merged are committed, and every feed has been processed
C5_FeedTransactions ==
    (pc = "raised" /\ exc = "write") =>
        \A k \in DOMAIN URLS :
            /\ fetched[k] /= "pending"
            /\ report[k] /= None =>
                 \A i \in 1..Len(Fetched(k)) :
                     \E r \in stations : KeyOf(r) = CellsKey(Fetched(k)[i])

RECURSIVE SumOk(_, _)
\* the sum of column c of the printed lines of the feeds up to k
SumOk(k, c) ==
    IF k = 0 THEN 0
    ELSE SumOk(k - 1, c) + (IF report[k] = None THEN 0 ELSE report[k][1][c])

\* C6: import_data never raises because a fetch failed; when it reaches its
\* commit every feed was fetched or skipped, a skipped feed printed no
\* counts, a fetched feed counted each of its items with name and address,
\* and the totals are the sums over the fetched feeds
C6_FailedFetchSkipsFeed ==
    /\ pc = "raised" => exc \in {"create_tables", "reconcile", "write"}
    /\ pc \in {"commit", "done"} =>
         /\ \A k \in DOMAIN URLS :
              /\ fetched[k] \in {"ok", "failed"}
              /\ fetched[k] = "failed" => report[k] = None
              /\ fetched[k] = "ok" =>
                   /\ report[k] /= None
                   /\ report[k][1][1] + report[k][1][2] = Len(Fetched(k))
         /\ added_total = SumOk(Len(URLS), 1)
         /\ updated_total = SumOk(Len(URLS), 2)

C6_Witness ==
    /\ pc = "done" /\ fetched = <<"failed", "ok">>
    /\ added_total + updated_total > 0

\* the lookup of the current item found no row, and a row with its key is
\* there now: another writer inserted it in between
RaceCase ==
    /\ pc = "upsert" /\ ~before
    /\ Conflicts(View, data[pos].FullName[1], data[pos].Address) /= {}

\* C7: the upsert of an item whose key another writer inserted after the
\* lookup does not raise; it leaves exactly one row with that key, holding
\* the item's values
C7_RaceSafeUpsert ==
    [][(RaceCase /\ Upsert) =>
         /\ pc' = "item"
         /\ LET hit == Conflicts(View', data[pos].FullName[1],
                                 data[pos].Address)
            IN  /\ Cardinality(hit) = 1
                /\ \A r \in hit : Holds(r, data[pos], feed)]_vars

C7_Witness ==
    /\ pc = "item" /\ feed = 1 /\ added = 1 /\ updated = 0
    /\ txRows /= {} /\ Ids(txRows) \subseteq Ids(stations)

MergePcs == {"fetch", "item", "upsert", "commit", "done"}

\* C8: import_data fetches and writes only after its reconciliation
\* committed, with both constraints in place; when the reconciliation (or
\* create_tables before it) raises, no feed was fetched and no station
\* written
C8_ReconcileBeforeMerge ==
    /\ (pc \in MergePcs \/ txRows /= {}) =>
         (everReconciled /\ uq /\ fk = "cascade")
    /\ (pc = "raised" /\ exc \in {"create_tables", "reconcile"}) =>
         (fetched = Pending /\ payload = NoFeed /\ txRows = {})

C8_Witness == pc = "raised" /\ exc = "reconcile" /\ ~uq

\* C9: once a reconciliation has committed, no review references a station
\* that does not exist: a station delete removes the reviews of the station
C9_CascadeDelete == everReconciled => NoOrphans(reviews, stations)

\* two requests changed the store: one created the only review, the other
\* deleted a station and the review went with it
C9_Witness ==
    /\ everReconciled /\ ops = 2 /\ nextReviewId = 2 /\ reviews = {}
    /\ Cardinality(stations) < nextId - 1

\* the items with name and address of this invocation, feed by feed
RunRecords ==
    [i \in 1..(Len(Fetched(1)) + Len(Fetched(2))) |->
        IF i <= Len(Fetched(1)) THEN <<Fetched(1)[i], 1>>
        ELSE <<Fetched(2)[i - Len(Fetched(1))], 2>>]

\* C10: an invocation given a single item, whose key is in the catalog, and
\* no concurrent writer, counts added = 0 and updated = 1, and its commit
\* leaves the row of that key with the item's values
C10_ChangedRecordIsUpdate ==
    [][(/\ pc = "commit" /\ pc' = "done" /\ ~raced
        /\ Len(RunRecords) = 1
        /\ \E s \in stations : KeyOf(s) = CellsKey(RunRecords[1][1]))
         => /\ added_total = 0 /\ updated_total = 1
            /\ \E r \in stations' : KeyOf(r) = CellsKey(RunRecords[1][1])
            /\ \A r \in stations' :
                 KeyOf(r) = CellsKey(RunRecords[1][1])
                     => Holds(r, RunRecords[1][1], RunRecords[1][2])]_vars

C10_Witness ==
    /\ pc = "done" /\ ~raced /\ Len(RunRecords) = 1
    /\ added_total = 0 /\ updated_total = 1
    /\ \E r \in stations : r.created_at < r.updated_at

\* the keys of the items with name and address of feed k
FeedKeys(k) == {CellsKey(Fetched(k)[i]) : i \in 1..Len(Fetched(k))}

\* C11 as stated: when an import run commits, every station whose key the
\* eco feed supplied has eco_status true and every station whose key the
\* non-eco feed supplied has eco_status false
C11_EcoFlagByFeed ==
    [][(pc = "commit" /\ pc' = "done") =>
         \A k \in DOMAIN URLS : \A s \in stations' :
             KeyOf(s) \in FeedKeys(k) => s.eco_status = (URLS[k] = "eco")]_vars

\* C11 amended: when an import run commits, the eco_status of a station is
\* that of the last feed, in the order eco, non_eco, that supplied its key
C11_EcoFlagByLastFeed ==
    [][(pc = "commit" /\ pc' = "done") =>
         \A k \in DOMAIN URLS : \A s \in stations' :
             (/\ KeyOf(s) \in FeedKeys(k)
              /\ \A j \in DOMAIN URLS : j > k => KeyOf(s) \notin FeedKeys(j))
                 => s.eco_status = (URLS[k] = "eco")]_vars

C11_Witness ==
    /\ pc = "done"
    /\ \E s \in stations, t \in stations :
         /\ s.eco_status /\ KeyOf(s) \in FeedKeys(1)
         /\ ~t.eco_status /\ KeyOf(t) \in FeedKeys(1) \cap FeedKeys(2)

\* item c carries a name and an address, both non-empty
HasNameAndAddress(c) ==
    /\ c.FullName /= None /\ c.FullName /= Some("")
    /\ c.Address /= None /\ c.Address /= Some("")

\* C15: the step of the merge loop on an item whose FullName or Address is
\* missing or empty writes no station and counts nothing, and goes on to the
\* next item; at the end of a batch every item with both has been counted
\* and has its row
C15_RecordWithoutKeyDropped ==
    [][/\ (/\ pc = "item" /\ pos <= Len(data)
           /\ ~HasNameAndAddress(data[pos]) /\ ImportStep)
          => /\ pc' = "item" /\ pos' = pos + 1 /\ data' = data
             /\ txRows' = txRows /\ stations' = stations
             /\ added' = added /\ updated' = updated
       /\ (pc = "item" /\ pos > Len(data))
          => /\ added + updated
                  = Len(SelectSeq(data, HasNameAndAddress))
             /\ \A i \in 1..Len(data) :
                  HasNameAndAddress(data[i])
                      => \E r \in View : KeyOf(r) = CellsKey(data[i])]_vars

\* a batch with an item without a name between two items that were merged
C15_Witness ==
    /\ pc = "item" /\ pos > Len(data) /\ Len(data) = 3
    /\ ~HasNameAndAddress(data[2])
    /\ added + updated = 2

\* the geoData of the item merged on its own
Geo == unit.item.geoData

\* a structured value whose "coordinates" is a list of two entries or more
ListOfTwo(g) ==
    /\ g /= None /\ g[1].type = "dict" /\ "coordinates" \in g[1].keys
    /\ g[1].coordsIsList /\ Len(g[1].coordinates) >= 2

\* C12: for a structured value whose "coordinates" is a list holding at
\* least two numbers, extract_coordinates returns (coordinates[1],
\* coordinates[0]) as (lat, lon)
C12_DictCoordinates ==
    (/\ unit.params /= None /\ ListOfTwo(Geo)
     /\ \E i, j \in DOMAIN Geo[1].coordinates :
          i /= j /\ IsNumber(Geo[1].coordinates[i])
                 /\ IsNumber(Geo[1].coordinates[j]))
        => /\ unit.params[1].latitude = Geo[1].coordinates[2]
           /\ unit.params[1].longitude = Geo[1].coordinates[1]

\* {"coordinates": [30.5, 55.7]} gives (55.7, 30.5)
C12_Witness ==
    /\ unit.at = "bound" /\ Geo = GeoPoint(305, 557)
    /\ unit.params[1].latitude = Some(557)
    /\ unit.params[1].longitude = Some(305)

RECURSIVE SignedNumbers(_, _)
\* the numeric substrings of s from index i on, a number being a decimal or
\* an integer with its sign: [-+]?(\d*\.\d+|\d+)
SignedNumbers(s, i) ==
    IF i > Len(s) THEN <<>>
    ELSE LET j   == IF s[i] \in {"-", "+"} THEN i + 1 ELSE i
             k   == DigitsEnd(s, j)
             dec == k + 1 <= Len(s) /\ s[k] = "." /\ s[k + 1] \in Digits
             e   == DigitsEnd(s, k + 1)
         IN  IF dec THEN <<SubSeq(s, i, e - 1)>> \o SignedNumbers(s, e)
             ELSE IF k > j
             THEN <<SubSeq(s, i, k - 1)>> \o SignedNumbers(s, k)
             ELSE SignedNumbers(s, i + 1)

\* C13: for a text with two signed numbers or more, extract_coordinates
\* returns the first two, with their signs, as (lon, lat)
C13_TextCoordinates ==
    (/\ unit.params /= None /\ Geo /= None /\ Geo[1].type = "str"
     /\ Len(SignedNumbers(Geo[1].text, 1)) >= 2)
        => LET n == SignedNumbers(Geo[1].text, 1)
           IN  /\ unit.params[1].latitude = Some(Float(n[2]))
               /\ unit.params[1].longitude = Some(Float(n[1]))

\* a value that is neither of the two supported encodings
Unsupported(g) ==
    \/ g = None
    \/ g[1].type = "other"
    \/ g[1].type = "dict" /\ ~ListOfTwo(g)
    \/ g[1].type = "str" /\ Len(SignedNumbers(g[1].text, 1)) < 2

\* C14: extract_coordinates raises for no value, and returns (None, None)
\* for a value that is neither a structured value with a list of two
\* entries or more under "coordinates" nor a text with two numbers or more
C14_UnsupportedGivesNone ==
    /\ ~(unit.at = "raised" /\ unit.exc = "extract_coordinates")
    /\ (unit.params /= None /\ Unsupported(Geo))
         => /\ unit.params[1].latitude = None
            /\ unit.params[1].longitude = None

\* a "coordinates" that is a sequence of two items and no list
C14_Witness ==
    /\ unit.at = "bound"
    /\ Geo = GeoDict({"coordinates"}, FALSE, <<NotNumber, NotNumber>>)
    /\ unit.params[1].latitude = None /\ unit.params[1].longitude = None

\* geoData from which two numbers can be read
GeoParseable(g) ==
    \/ /\ ListOfTwo(g)
       /\ IsNumber(g[1].coordinates[1]) /\ IsNumber(g[1].coordinates[2])
    \/ /\ g /= None /\ g[1].type = "str"
       /\ Len(SignedNumbers(g[1].text, 1)) >= 2

\* C16: an item with name and address is written whatever its geoData and
\* TestDate; geoData from which no two numbers can be read leaves latitude
\* and longitude NULL, a TestDate in neither format leaves test_date NULL
C16_UnparseableFieldAbsent ==
    (unit.at \in {"written", "raised"} /\ HasNameAndAddress(unit.item))
        => /\ unit.at = "written"
           /\ \A r \in unit.written :
                /\ ~GeoParseable(Geo)
                     => r.latitude = None /\ r.longitude = None
                /\ unit.item.TestDate \notin {DateDMY, DateYMD}
                     => r.test_date = None

\* C17: a row written by the import has latitude and longitude both NULL,
\* or both numbers with latitude in [-90, 90] and longitude in [-180, 180]
C17_LatLonBothInRange ==
    unit.at = "written" =>
        \A r \in unit.written :
            \/ r.latitude = None /\ r.longitude = None
            \/ /\ IsNumber(r.latitude) /\ IsNumber(r.longitude)
               /\ r.latitude[1] >= -900 /\ r.latitude[1] <= 900
               /\ r.longitude[1] >= -1800 /\ r.longitude[1] <= 1800

\* C18: simple_kmeans returns one label per point, and every label is an
\* integer of [0, k): the index of a centroid nearest to its point, or 0
C18_OneLabelPerPoint ==
    km.at = "returned" =>
        /\ Len(km.labels) = Len(km.points)
        /\ \A i \in 1..Len(km.points) :
             /\ km.labels[i] \in 0..(km.k - 1)
             /\ km.centroids /= <<>> =>
                  \A j \in 1..km.k :
                     ~Nearer(km.points[i], km.centroids[j],
                             km.centroids[km.labels[i] + 1])

\* a call with 3 points and k = 2 that took more than one pass and used
\* both labels
C18_Witness ==
    /\ km.at = "returned" /\ Len(km.points) = 3 /\ km.k = 2
    /\ km.iters > 1 /\ \E i \in 1..3 : km.labels[i] = 1

\* C19: with fewer points than k, simple_kmeans makes no pass of its loop
\* and returns label 0 for every point
C19_FewerPointsThanK ==
    (km.at \in {"loop", "returned", "raised"} /\ Len(km.points) < km.k)
        => /\ km.at = "returned"
           /\ km.iters = 0
           /\ km.labels = [i \in 1..Len(km.points) |-> 0]

\* 2 points and k = 3 give [0, 0]
C19_Witness ==
    /\ km.at = "returned" /\ Len(km.points) = 2 /\ km.k = 3
    /\ km.labels = <<0, 0>>

\* C20: a call returns the labels that the first call with the same points
\* and k returned, whatever the global generator held before either call
C20_SameLabelsEveryCall ==
    (km.at = "returned" /\ km.first /= None) => km.labels = km.first[1]

\* a second call, after other code used the generator
C20_Witness ==
    /\ km.at = "returned" /\ km.first /= None
    /\ Len(km.points) = 3 /\ km.k = 2 /\ km.moved

\* C28: a reconciliation that commits leaves the cascading foreign key and
\* the unique index in place, whatever it found; one that finds both leaves
\* the schema as it was, and one that raises changes nothing
C28_ReconcileIdempotent ==
    [][(pc = "reconcile" /\ pc' /= "reconcile") =>
         IF pc' = "fetch"
         THEN /\ fk' = "cascade" /\ uq'
              /\ (fk = "cascade" /\ uq) => schema' = schema
              /\ everReconciled => schema' = schema
         ELSE schema' = schema]_vars

\* the second reconciliation of a behaviour has committed
C28_Witness == pc = "fetch" /\ clock = 2 /\ runs = 2

\* C29 as stated: the upsert of an item adds one to `added` exactly when it
\* created a row and one to `updated` exactly when it changed a row that
\* was there, also when another writer changed the table after the lookup
C29_CountsMatchWrites ==
    [][(pc = "upsert" /\ pc' = "item") =>
         /\ added' + updated' = added + updated + 1
         /\ added' = added + 1 <=> nextId' = nextId + 1
         /\ updated' = updated + 1 <=> nextId' = nextId]_vars

\* the indices of the points that carry label l
Members(labels, l) == {i \in 1..Len(labels) : labels[i] = l}

\* C26: a pass of the loop gives every point the label of a centroid at the
\* least distance, leaves k centroids, makes the centroid of a cluster with
\* points the mean of its points and leaves the centroid of a cluster
\* without points as it was
C26_IterationStep ==
    [][(km.at = "loop" /\ km'.iters = km.iters + 1) =>
         /\ Len(km'.labels) = Len(km.points)
         /\ Len(km'.centroids) = km.k
         /\ \A i \in 1..Len(km.points) : \A j \in 1..km.k :
              ~Nearer(km.points[i], km.centroids[j],
                      km.centroids[km'.labels[i] + 1])
         /\ \A l \in 0..(km.k - 1) :
              LET c == km'.centroids[l + 1]
                  n == Cardinality(Members(km'.labels, l))
              IN  IF n = 0 THEN c = km.centroids[l + 1]
                  ELSE /\ c[1] * n = SumOf(km.points, km'.labels, l, 1) * c[3]
                       /\ c[2] * n = SumOf(km.points, km'.labels, l, 2) * c[3]
       ]_vars

\* after the first pass one cluster has no point and the other has the
\* mean of the three points
C26_Witness ==
    /\ km.at = "loop" /\ km.iters = 1 /\ km.k = 2 /\ Len(km.points) = 3
    /\ Members(km.labels, 1) = {}
    /\ km.centroids[1][3] = 3

\* C21 as stated: for the three groups and k = 3 the labels tell the groups
\* apart: two points have the same label exactly when they are of the same
\* group, whichever points the first centroids are
C21_GroupsSeparated ==
    (/\ km.at = "returned" /\ km.points \in GroupArrays /\ km.k = 3
     /\ km.max_iters = max_iters)
        => \A i, j \in 1..Len(km.points) :
              km.labels[i] = km.labels[j]
                  <=> GroupOf(km.points[i]) = GroupOf(km.points[j])

\* C22 as stated: a call on no points, or with k <= 0, does not raise and
\* returns no label or label 0 for every point
C22_TrivialArgumentsReturn ==
    (/\ km.at \in {"returned", "raised"}
     /\ km.points = <<>> \/ km.k <= 0)
        => /\ km.at = "returned"
           /\ km.labels = Zeros(Len(km.points))

\* C27 as stated: for every max_iters >= 0 a call with k centroids to
\* choose ends by returning, after at most max_iters passes, the labels of
\* its last pass; it ends before max_iters passes only with a pass that
\* left the centroids as they were
C27_TerminatesWithLastAssignment ==
    [][(/\ km.at \in {"ready", "loop"} /\ km'.at \notin {"ready", "loop"}
        /\ km.k >= 1 /\ km.k <= Len(km.points) /\ km.max_iters >= 0)
         => /\ km'.at = "returned"
            /\ km'.iters <= km.max_iters
            /\ km'.labels = Labels(km.points, km.centroids)
            /\ km'.iters < km.max_iters =>
                 AllClose(km.centroids,
                          NewCentroids(km.points, km'.labels, km.centroids))
       ]_vars

RECURSIVE SumCounts(_)
\* the sum of the counts of the entries of a mapping area -> count
SumCounts(t) == IF t = <<>> THEN 0 ELSE Head(t)[2] + SumCounts(Tail(t))

\* C23: by_district has one entry for every area that a station of the
\* catalog has, with the number of stations of that area, and no other
\* entry; the entries are in the order of falling counts; the counts add up
\* to the number of stations that have an area
C23_AreaCounts ==
    stats.at \in {"areas", "answered"} =>
        LET t    == stats.by_district
            rows == stats.start
            with == {r \in rows : r.admarea /= None}
        IN  /\ \A r \in with :
                 \E i \in 1..Len(t) :
                    /\ t[i][1] = r.admarea[1]
                    /\ t[i][2] = Cardinality({x \in rows :
                                                x.admarea = r.admarea})
            /\ \A i \in 1..Len(t) : \E r \in with : t[i][1] = r.admarea[1]
            /\ \A i, j \in 1..Len(t) : i /= j => t[i][1] /= t[j][1]
            /\ \A i, j \in 1..Len(t) : i < j => t[i][2] >= t[j][2]
            /\ SumCounts(t) = Cardinality(with)

\* two areas with different counts, and a station without area
C23_Witness ==
    /\ stats.at = "areas" /\ Len(stats.by_district) = 2
    /\ stats.by_district[1][2] = 2 /\ stats.by_district[2][2] = 1
    /\ \E r \in stats.start : r.admarea = None

\* C24: the scatter has one point for every station that the second query
\* read with latitude and longitude, with the station's values, and no
\* other point; with fewer than 3 points k is 1, simple_kmeans is not
\* called and every cluster is 0; otherwise k is 3; every cluster is in
\* [0, k)
C24_ScatterPoints ==
    stats.at = "answered" =>
        LET sc   == stats.scatter
            both == WithCoordinates(stats.read)
            n    == Len(sc.points)
        IN  /\ n = Cardinality(both) /\ Len(stats.fetched) = n
            /\ {stats.fetched[i] : i \in 1..n} = Ids(both)
            /\ \A i \in 1..n : \E r \in both :
                 /\ r.id = stats.fetched[i]
                 /\ sc.points[i].lat = r.latitude[1]
                 /\ sc.points[i].lon = r.longitude[1]
                 /\ sc.points[i].eco = (IF r.eco_status THEN 1 ELSE 0)
            /\ IF n < 3
               THEN /\ sc.k = 1 /\ ~stats.invoked
                    /\ \A i \in 1..n : sc.points[i].cluster = 0
               ELSE sc.k = 3 /\ stats.invoked
            /\ \A i \in 1..n : sc.points[i].cluster \in 0..(sc.k - 1)

\* a response with 3 points in 3 clusters, on a catalog that has stations
\* without latitude or longitude
C24_Witness ==
    /\ stats.at = "answered"
    /\ stats.read \ WithCoordinates(stats.read) /= {}
    /\ Len(stats.scatter.points) = 3
    /\ {stats.scatter.points[i].cluster : i \in 1..3} = {0, 1, 2}

\* C25 as stated: the area counts and the points of one response are both
\* those of the catalog as it was when the request began
C25_OneSnapshot ==
    stats.at = "answered" =>
        /\ stats.by_district \in by_district_rows(stats.start)
        /\ {stats.fetched[i] : i \in 1..Len(stats.fetched)}
               = Ids(WithCoordinates(stats.start))

====
